---------------------------- MODULE Spec2Model ----------------------------
(* A model of the difference-trie integer set of src/intset.c and          *)
(* src/intset.h: the tagged pointers, the heap of leaves and branches, and *)
(* insert / remove / contains / size / destroy as the C code computes      *)
(* them.                                                                   *)
EXTENDS Integers, Sequences, FiniteSets, TLC

(***************************************************************************)
(* Program constants (src/intset.c, the two enums).                        *)
(***************************************************************************)
INTSET_BRANCH == 1
INTSET_LEAF == 2
LEAF_SIZE_THRESHOLD == 64
BRANCH_BITS == 5
BRANCH_LEN == 32
TAG_BITS_MASK == 3

(***************************************************************************)
(* Bounds of the model.                                                    *)
(*   WordBits  width of `unsigned' in the model (the C type has 32 bits;   *)
(*             every value the workloads use fits in WordBits bits).       *)
(*   MaxNodes  number of heap blocks malloc can hand out; one more         *)
(*             request finds the heap exhausted and malloc returns NULL.   *)
(***************************************************************************)
WordBits == 22
MaxNodes == 80

UINT_MOD == 2 ^ WordBits

(***************************************************************************)
(* Bitwise operators of C on unsigned values: bit by bit (AndBits, OrBits, *)
(* XorBits), and five bits at a time (BitAnd, BitOr, BitXor), where a      *)
(* group of five bits that is all zeros or all ones in an operand, or the  *)
(* same in both, is decided without going through its bits.                *)
(***************************************************************************)
RECURSIVE AndBits(_, _)
AndBits(a, b) ==
    IF a = 0 \/ b = 0 THEN 0
    ELSE (a % 2) * (b % 2) + 2 * AndBits(a \div 2, b \div 2)

RECURSIVE OrBits(_, _)
OrBits(a, b) ==
    IF a = 0 THEN b
    ELSE IF b = 0 THEN a
    ELSE (IF a % 2 = 1 \/ b % 2 = 1 THEN 1 ELSE 0) + 2 * OrBits(a \div 2, b \div 2)

RECURSIVE XorBits(_, _)
XorBits(a, b) ==
    IF a = 0 THEN b
    ELSE IF b = 0 THEN a
    ELSE ((a + b) % 2) + 2 * XorBits(a \div 2, b \div 2)

And5(c, d) ==
    IF c = 0 \/ d = 0 THEN 0
    ELSE IF c = 31 \/ c = d THEN d
    ELSE IF d = 31 THEN c
    ELSE AndBits(c, d)

Or5(c, d) ==
    IF c = 0 \/ c = d THEN d
    ELSE IF d = 0 THEN c
    ELSE IF c = 31 \/ d = 31 THEN 31
    ELSE OrBits(c, d)

Xor5(c, d) ==
    IF c = 0 THEN d
    ELSE IF d = 0 THEN c
    ELSE IF c = d THEN 0
    ELSE IF c = 31 THEN 31 - d
    ELSE IF d = 31 THEN 31 - c
    ELSE XorBits(c, d)

RECURSIVE BitAnd(_, _)
BitAnd(a, b) ==
    IF a = 0 \/ b = 0 THEN 0
    ELSE And5(a % 32, b % 32) + 32 * BitAnd(a \div 32, b \div 32)

RECURSIVE BitOr(_, _)
BitOr(a, b) ==
    IF a = 0 THEN b
    ELSE IF b = 0 THEN a
    ELSE Or5(a % 32, b % 32) + 32 * BitOr(a \div 32, b \div 32)

RECURSIVE BitXor(_, _)
BitXor(a, b) ==
    IF a = 0 THEN b
    ELSE IF b = 0 THEN a
    ELSE Xor5(a % 32, b % 32) + 32 * BitXor(a \div 32, b \div 32)

\* ~a on an unsigned of WordBits bits
BitNot(a) == (UINT_MOD - 1) - a

\* -x on an unsigned of WordBits bits (wraps modulo 2^WordBits)
Negate(x) == (UINT_MOD - x) % UINT_MOD

(***************************************************************************)
(* Tagged pointers.  A tagged_ptr is the number ptr.value: 0 for the null  *)
(* pointer, otherwise the address of a block with the tag in the two low   *)
(* bits.  malloc returns addresses aligned beyond the tag bits.            *)
(***************************************************************************)
NULL == 0

ALIGN == TAG_BITS_MASK + 1

is_null(ptr) == ptr = 0

null_tagged_ptr == 0

tag_of(ptr) == BitAnd(ptr, TAG_BITS_MASK)

\* ptr.value & ~TAG_BITS_MASK: the value with its tag bits cleared
unbox_as_leaf(ptr) == ptr - BitAnd(ptr, TAG_BITS_MASK)

unbox_as_branch(ptr) == ptr - BitAnd(ptr, TAG_BITS_MASK)

box_as_leaf(leaf) == BitOr(leaf, INTSET_LEAF)

box_as_branch(branch) == BitOr(branch, INTSET_BRANCH)

(***************************************************************************)
(* The heap maps the address of every live block to its contents:          *)
(*   a leaf    [kind |-> "leaf", len, cap, values]   values has len items, *)
(*             cap is the number of elements the block was allocated for   *)
(*             (leaf_size(cap) bytes);                                     *)
(*   a branch  [kind |-> "branch", mask, ptrs]   ptrs has BRANCH_LEN       *)
(*             tagged pointers, ptrs[i + 1] being the C ptrs[i].           *)
(* A machine m is the process while a call runs: m.root and m.heap, the    *)
(* allocation site at which the allocator fails in this call (m.fail),     *)
(* whether realloc moves blocks in this call (m.mv), and what the call has *)
(* done so far: the site that failed (m.failed), process ended by oom_die  *)
(* (m.dead), undefined behaviour (m.ub), the allocation sites that handed  *)
(* out memory (m.used), the calls of split_leaf_insert (m.nsplit) and the  *)
(* elements differing_bits read in the last of them (m.read).              *)
(***************************************************************************)
Sites == {"new_leaf", "new_branch", "insert_in_leaf", "insert_ordered"}

NoFail == "none"

\* the lowest aligned address from ALIGN * k on that is not live
FirstFree(heap, k) ==
    LET free_at == {j \in k..(k + Cardinality(DOMAIN heap)) : (ALIGN * j) \notin DOMAIN heap}
    IN  ALIGN * (CHOOSE j \in free_at : \A i \in free_at : j <= i)

\* malloc / calloc / the allocation half of realloc at allocation site
\* `site': NULL when the allocator fails there (m.fail) or the heap is
\* exhausted, else the address of a block that is not live.
malloc(m, site) ==
    IF m.fail = site \/ Cardinality(DOMAIN m.heap) >= MaxNodes THEN NULL
    ELSE FirstFree(m.heap, 1)

\* the heap with no live block
EmptyHeap == [a \in {} |-> 0]

\* the heap with `cell' as the block at address a
Store(heap, a, cell) == (a :> cell) @@ heap

\* free(p): releasing a block that is not live is undefined behaviour
free(m, a) ==
    IF a \in DOMAIN m.heap
    THEN [m EXCEPT !.heap = [x \in (DOMAIN m.heap) \ {a} |-> m.heap[x]] @@ EmptyHeap]
    ELSE [m EXCEPT !.ub = TRUE]

\* oom_die without the abort: the caller goes on with the null pointer
oom_return(m, site) == [m EXCEPT !.failed = site]

\* fprintf(stderr, ...); abort(): the process ends here
oom_die(m, site) == [m EXCEPT !.dead = TRUE, !.failed = site]

is_pow2(n) == BitAnd(n, n - 1) = 0

lowest_bit(x) == BitAnd(x, Negate(x))

Leaf(len, cap, values) == [kind |-> "leaf", len |-> len, cap |-> cap, values |-> values]

Branch(mask, ptrs) == [kind |-> "branch", mask |-> mask, ptrs |-> ptrs]

\* new_leaf: a block for one element
new_leaf(m, elt) ==
    LET leaf == malloc(m, "new_leaf") IN
    IF leaf = NULL
    THEN [m |-> oom_die(m, "new_leaf"), p |-> NULL]
    ELSE [m |-> [m EXCEPT !.heap = Store(m.heap, leaf, Leaf(1, 1, <<elt>>)),
                          !.used = @ \cup {"new_leaf"}],
          p |-> leaf]

\* new_branch that keeps only the lowest bit of the mask
new_branch_one_bit(m, mask) ==
    LET branch == malloc(m, "new_branch") IN
    IF branch = NULL
    THEN [m |-> oom_die(m, "new_branch"), p |-> NULL]
    ELSE [m |-> [m EXCEPT !.heap =
                    Store(m.heap, branch,
                          Branch(lowest_bit(mask), [i \in 1..BRANCH_LEN |-> NULL])),
                          !.used = @ \cup {"new_branch"}],
          p |-> branch]

\* new_branch: calloc gives BRANCH_LEN null pointers
new_branch(m, mask) ==
    LET branch == malloc(m, "new_branch") IN
    IF branch = NULL
    THEN [m |-> oom_die(m, "new_branch"), p |-> NULL]
    ELSE [m |-> [m EXCEPT !.heap =
                    Store(m.heap, branch, Branch(mask, [i \in 1..BRANCH_LEN |-> NULL])),
                          !.used = @ \cup {"new_branch"}],
          p |-> branch]

\* realloc for one element more, where the code asks for twice the length
realloc_one_more(m, leaf, num_elts, site) ==
    LET old == m.heap[leaf]
        blk == [old EXCEPT !.cap = num_elts \div 2 + 1]
        to == malloc(m, site)
    IN  IF to = NULL THEN [m |-> m, p |-> NULL]
        ELSE IF m.mv
        THEN [m |-> free([m EXCEPT !.heap = Store(m.heap, to, blk),
                                   !.used = @ \cup {site}], leaf),
              p |-> to]
        ELSE [m |-> [m EXCEPT !.heap = Store(m.heap, leaf, blk), !.used = @ \cup {site}],
              p |-> leaf]

\* realloc(leaf, leaf_size(num_elts)) at `site': NULL on failure (the old
\* block stays), else the block's address, which is a new one when the
\* allocator moves the block (m.mv) and the old one when it resizes in place.
realloc(m, leaf, num_elts, site) ==
    LET old == m.heap[leaf]
        blk == [old EXCEPT !.cap = num_elts]
        to == malloc(m, site)
    IN  IF to = NULL THEN [m |-> m, p |-> NULL]
        ELSE IF m.mv
        THEN [m |-> free([m EXCEPT !.heap = Store(m.heap, to, blk),
                                   !.used = @ \cup {site}], leaf),
              p |-> to]
        ELSE [m |-> [m EXCEPT !.heap = Store(m.heap, leaf, blk), !.used = @ \cup {site}],
              p |-> leaf]

(***************************************************************************)
(* differing_bits: scan the array from its first element, adding the       *)
(* lowest new bit in which an element differs from the first, until        *)
(* BRANCH_BITS bits are found.  `read' counts the elements read; reading   *)
(* element number len + 1 is a read past the array (overrun).              *)
(***************************************************************************)
\* the first of the indices `hits'
differing_bits_next(hits) == CHOOSE j \in hits : \A k \in hits : j <= k

\* the loop of differing_bits without `& ~bits': a bit already chosen is
\* chosen again
RECURSIVE differing_bits_loop_same(_, _, _, _, _)
differing_bits_loop_same(a, i, base, bits, bits_left) ==
    IF bits_left = 0 THEN [mask |-> bits, read |-> i, overrun |-> FALSE]
    ELSE LET hits == {j \in i..(Len(a) - 1) : BitXor(base, a[j + 1]) # 0} IN
         IF hits = {} THEN [mask |-> bits, read |-> Len(a) + 1, overrun |-> TRUE]
         ELSE differing_bits_loop_same(a, differing_bits_next(hits) + 1, base,
                                       BitOr(bits, lowest_bit(BitXor(base, a[differing_bits_next(hits) + 1]))),
                                       bits_left - 1)

\* diff for the element at index j
differing_bits_diff(a, j, base, bits) == BitAnd(BitXor(base, a[j + 1]), BitNot(bits))

\* The loop from index i on.  The turns with diff = 0 change nothing but the
\* index, so the loop goes on at the first index whose diff is not 0; with
\* no such index left in the array it reads on past the last element.
RECURSIVE differing_bits_loop(_, _, _, _, _)
differing_bits_loop(a, i, base, bits, bits_left) ==
    IF bits_left = 0 THEN [mask |-> bits, read |-> i, overrun |-> FALSE]
    ELSE LET hits == {j \in i..(Len(a) - 1) : differing_bits_diff(a, j, base, bits) # 0} IN
         IF hits = {} THEN [mask |-> bits, read |-> Len(a) + 1, overrun |-> TRUE]
         ELSE differing_bits_loop(a, differing_bits_next(hits) + 1, base,
                                  BitOr(bits, lowest_bit(differing_bits_diff(a, differing_bits_next(hits), base, bits))),
                                  bits_left - 1)

differing_bits(a) == differing_bits_loop(a, 0, a[1], 0, BRANCH_BITS)

(***************************************************************************)
(* branch_index: the bits of x at the mask's positions, lowest first.      *)
(* bit = lowest_bit(mask) is 0 or one bit of mask, and index has no bit at *)
(* n or above, so that                                                     *)
(*   mask ^ bit            is  mask - bit,                                 *)
(*   !!(bit & x)           is  1 iff bit # 0 and x / bit is odd,           *)
(*   index | (... << n)    is  index + ... * 2^n.                          *)
(* branch_index_bits is the loop with the C operators, branch_index_loop   *)
(* the same loop with this arithmetic.                                     *)
(***************************************************************************)
RECURSIVE branch_index_bits(_, _, _, _, _)
branch_index_bits(mask, x, index, n, num_bits) ==
    IF num_bits = 0 THEN index
    ELSE LET bit == lowest_bit(mask) IN
         branch_index_bits(BitXor(mask, bit), x,
                           BitOr(index, (IF BitAnd(bit, x) # 0 THEN 1 ELSE 0) * (2 ^ n)),
                           n + 1, num_bits - 1)

\* the loop of branch_index without `mask ^= bit': the same bit every time
RECURSIVE branch_index_loop_stuck(_, _, _, _, _)
branch_index_loop_stuck(mask, x, index, n, num_bits) ==
    IF num_bits = 0 THEN index
    ELSE LET bit == lowest_bit(mask) IN
         branch_index_loop_stuck(mask, x,
                                 index + (IF bit # 0 /\ (x \div bit) % 2 = 1 THEN 2 ^ n ELSE 0),
                                 n + 1, num_bits - 1)

RECURSIVE branch_index_loop(_, _, _, _, _)
branch_index_loop(mask, x, index, n, num_bits) ==
    IF num_bits = 0 THEN index
    ELSE LET bit == lowest_bit(mask) IN
         branch_index_loop(mask - bit, x,
                           index + (IF bit # 0 /\ (x \div bit) % 2 = 1 THEN 2 ^ n ELSE 0),
                           n + 1, num_bits - 1)

branch_index(mask, x) == branch_index_loop(mask, x, 0, 0, BRANCH_BITS)

(***************************************************************************)
(* find_in_block: the first index i (from 0) with !(a[i] < elt), or len.   *)
(***************************************************************************)
\* the for loop from index i on: it stops at the first index from i with
\* !(a[i] < elt), and at len when there is none
find_in_block_loop(a, len, elt, i) ==
    LET stops == {j \in i..(len - 1) : ~(a[j + 1] < elt)} IN
    IF stops = {} THEN (IF i < len THEN len ELSE i)
    ELSE CHOOSE j \in stops : \A k \in stops : j <= k

\* find_in_block with <= for <: the first index past elt
find_in_block_after(a, len, elt) == Cardinality({i \in 1..len : a[i] <= elt})

find_in_block(a, len, elt) == find_in_block_loop(a, len, elt, 0)

(***************************************************************************)
(* A `tagged_ptr *ref' is the place of a slot: the set's root (b = NULL)   *)
(* or slot i of the branch at address b.                                   *)
(***************************************************************************)
RootRef == [b |-> NULL, i |-> 0]

SlotRef(branch, index) == [b |-> branch, i |-> index]

\* *ref = p
StoreRef(m, ref, p) ==
    IF ref.b = NULL THEN [m EXCEPT !.root = p]
    ELSE [m EXCEPT !.heap[ref.b].ptrs[ref.i + 1] = p]

\* *ref = <the call that returned r>, unless the call did not return
StoreResult(r, ref) ==
    IF r.m.dead \/ r.m.ub THEN r.m ELSE StoreRef(r.m, ref, r.p)

\* leaf->values[i] = ... for an i up to `top': a write at or past the
\* block's capacity is a buffer overflow (undefined behaviour)
in_bounds(m, leaf, top) == top < m.heap[leaf].cap

(***************************************************************************)
(* insert_ordered: append elt to the leaf in ptr (all of whose elements    *)
(* are smaller), or make a leaf for it when ptr is null.                   *)
(***************************************************************************)
insert_ordered(m, ptr, elt) ==
    IF is_null(ptr)
    THEN LET r == new_leaf(m, elt) IN
         IF r.m.dead THEN r ELSE [m |-> r.m, p |-> box_as_leaf(r.p)]
    ELSE LET leaf0 == unbox_as_leaf(ptr)
             len == m.heap[leaf0].len
             g == IF is_pow2(len)
                  THEN realloc(m, leaf0, len * 2, "insert_ordered")
                  ELSE [m |-> m, p |-> leaf0]
         IN  IF g.p = NULL
             THEN [m |-> oom_die(g.m, "insert_ordered"), p |-> NULL]
             ELSE IF ~in_bounds(g.m, g.p, len)
             THEN [m |-> [g.m EXCEPT !.ub = TRUE], p |-> NULL]
             ELSE [m |-> [g.m EXCEPT !.heap[g.p].values = Append(@, elt),
                                     !.heap[g.p].len = len + 1],
                   p |-> box_as_leaf(g.p)]

RECURSIVE intset_insert1(_, _, _, _)

\* one turn of the for loop of split_leaf_insert that puts its element in
\* ptrs[0]
split_leaf_step_first(m, leaf, branch, i) ==
    IF m.dead \/ m.ub \/ i >= m.heap[leaf].len THEN m
    ELSE StoreResult(insert_ordered(m, m.heap[branch].ptrs[1], m.heap[leaf].values[i + 1]),
                     SlotRef(branch, 0))

RECURSIVE split_leaf_range_first(_, _, _, _, _)
split_leaf_range_first(m, leaf, branch, lo, hi) ==
    IF hi <= lo \/ m.dead \/ m.ub THEN m
    ELSE IF hi = lo + 1 THEN split_leaf_step_first(m, leaf, branch, lo)
    ELSE split_leaf_range_first(
             split_leaf_range_first(m, leaf, branch, lo, (lo + hi) \div 2),
             leaf, branch, (lo + hi) \div 2, hi)

\* the for loop with every element put in ptrs[0]
split_leaf_loop_first(m, leaf, branch, i) ==
    split_leaf_range_first(m, leaf, branch, i, m.heap[leaf].len)

\* the slot of the branch that element i (counted from 0) of the leaf goes to
split_leaf_index(m, leaf, branch, i) ==
    branch_index(m.heap[branch].mask, m.heap[leaf].values[i + 1])

\* one turn of the for loop of split_leaf_insert, for element i; nothing
\* once the process has ended
split_leaf_step(m, leaf, branch, i) ==
    IF m.dead \/ m.ub \/ i >= m.heap[leaf].len THEN m
    ELSE StoreResult(insert_ordered(m,
                                    m.heap[branch].ptrs[split_leaf_index(m, leaf, branch, i) + 1],
                                    m.heap[leaf].values[i + 1]),
                     SlotRef(branch, split_leaf_index(m, leaf, branch, i)))

\* the turns for the elements lo .. hi - 1, in this order: those of the
\* first half of the range, then those of the second half; none once the
\* process has ended
RECURSIVE split_leaf_range(_, _, _, _, _)
split_leaf_range(m, leaf, branch, lo, hi) ==
    IF hi <= lo \/ m.dead \/ m.ub THEN m
    ELSE IF hi = lo + 1 THEN split_leaf_step(m, leaf, branch, lo)
    ELSE split_leaf_range(split_leaf_range(m, leaf, branch, lo, (lo + hi) \div 2),
                          leaf, branch, (lo + hi) \div 2, hi)

\* the for loop of split_leaf_insert, from element i (counted from 0) on
split_leaf_loop(m, leaf, branch, i) ==
    split_leaf_range(m, leaf, branch, i, m.heap[leaf].len)

\* the end of split_leaf_insert without free(leaf)
split_leaf_done_leak(m2, leaf, branch) ==
    IF m2.dead \/ m2.ub THEN [m |-> m2, p |-> NULL]
    ELSE [m |-> m2, p |-> box_as_branch(branch)]

\* the end of split_leaf_insert, on the machine m2 the insertion of elt left
split_leaf_done(m2, leaf, branch) ==
    IF m2.dead \/ m2.ub THEN [m |-> m2, p |-> NULL]
    ELSE [m |-> free(m2, leaf), p |-> box_as_branch(branch)]

(***************************************************************************)
(* split_leaf_insert: replace the full leaf by a branch over the bits of   *)
(* differing_bits, its elements appended in order to the branch's child    *)
(* leaves, then insert elt below the branch and free the old leaf.         *)
(***************************************************************************)
split_leaf_insert(m, leaf, elt) ==
    LET d == differing_bits(m.heap[leaf].values) IN
    IF d.overrun THEN [m |-> [m EXCEPT !.ub = TRUE], p |-> NULL]
    ELSE
    LET nb == new_branch([m EXCEPT !.nsplit = @ + 1, !.read = d.read], d.mask) IN
    IF nb.m.dead THEN nb
    ELSE
    LET branch == nb.p
        m1 == split_leaf_loop(nb.m, leaf, branch, 0)
    IN  IF m1.dead \/ m1.ub THEN [m |-> m1, p |-> NULL]
        ELSE
        LET index == branch_index(m1.heap[branch].mask, elt) IN
        split_leaf_done(intset_insert1(m1, m1.heap[branch].ptrs[index + 1],
                                       SlotRef(branch, index), elt),
                        leaf, branch)

\* insert_in_leaf without the shift loop: elt is stored after the last value
shift_up_append(values, len, point, elt) ==
    [i \in 1..(len + 1) |-> IF i <= len THEN values[i] ELSE elt]

\* the shift loop and the store of insert_in_leaf: values[len .. point+1]
\* move up by one and values[point] = elt
shift_up(values, len, point, elt) ==
    [i \in 1..(len + 1) |->
        IF i - 1 < point THEN values[i]
        ELSE IF i - 1 = point THEN elt
        ELSE values[i - 1]]

\* insert_in_leaf with the split at half the threshold
insert_in_leaf_half(m, leaf0, elt) ==
    LET len == m.heap[leaf0].len
        point == find_in_block(m.heap[leaf0].values, len, elt)
    IN  IF point < len /\ m.heap[leaf0].values[point + 1] = elt
        THEN [m |-> m, p |-> box_as_leaf(leaf0)]
        ELSE IF is_pow2(len) /\ len = LEAF_SIZE_THRESHOLD \div 2
        THEN split_leaf_insert(m, leaf0, elt)
        ELSE
        LET g == IF is_pow2(len)
                 THEN realloc(m, leaf0, len * 2, "insert_in_leaf")
                 ELSE [m |-> m, p |-> leaf0]
        IN  IF g.p = NULL
            THEN [m |-> oom_die(g.m, "insert_in_leaf"), p |-> NULL]
            ELSE IF ~in_bounds(g.m, g.p, len)
            THEN [m |-> [g.m EXCEPT !.ub = TRUE], p |-> NULL]
            ELSE [m |-> [g.m EXCEPT
                            !.heap[g.p].values = shift_up(@, len, point, elt),
                            !.heap[g.p].len = len + 1],
                  p |-> box_as_leaf(g.p)]

\* insert_in_leaf with the test for a full leaf before the test for an
\* element already there
insert_in_leaf_split_first(m, leaf0, elt) ==
    LET len == m.heap[leaf0].len
        point == find_in_block(m.heap[leaf0].values, len, elt)
    IN  IF is_pow2(len) /\ len = LEAF_SIZE_THRESHOLD
        THEN split_leaf_insert(m, leaf0, elt)
        ELSE IF point < len /\ m.heap[leaf0].values[point + 1] = elt
        THEN [m |-> m, p |-> box_as_leaf(leaf0)]
        ELSE
        LET g == IF is_pow2(len)
                 THEN realloc(m, leaf0, len * 2, "insert_in_leaf")
                 ELSE [m |-> m, p |-> leaf0]
        IN  IF g.p = NULL
            THEN [m |-> oom_die(g.m, "insert_in_leaf"), p |-> NULL]
            ELSE IF ~in_bounds(g.m, g.p, len)
            THEN [m |-> [g.m EXCEPT !.ub = TRUE], p |-> NULL]
            ELSE [m |-> [g.m EXCEPT
                            !.heap[g.p].values = shift_up(@, len, point, elt),
                            !.heap[g.p].len = len + 1],
                  p |-> box_as_leaf(g.p)]

(***************************************************************************)
(* insert_in_leaf: nothing for an element already there; a split at the    *)
(* threshold; otherwise grow the block when len is a power of two and      *)
(* insert at the element's place.                                          *)
(***************************************************************************)
insert_in_leaf(m, leaf0, elt) ==
    LET len == m.heap[leaf0].len
        point == find_in_block(m.heap[leaf0].values, len, elt)
    IN  IF point < len /\ m.heap[leaf0].values[point + 1] = elt
        THEN [m |-> m, p |-> box_as_leaf(leaf0)]
        ELSE IF is_pow2(len) /\ len = LEAF_SIZE_THRESHOLD
        THEN split_leaf_insert(m, leaf0, elt)
        ELSE
        LET g == IF is_pow2(len)
                 THEN realloc(m, leaf0, len * 2, "insert_in_leaf")
                 ELSE [m |-> m, p |-> leaf0]
        IN  IF g.p = NULL
            THEN [m |-> oom_die(g.m, "insert_in_leaf"), p |-> NULL]
            ELSE IF ~in_bounds(g.m, g.p, len)
            THEN [m |-> [g.m EXCEPT !.ub = TRUE], p |-> NULL]
            ELSE [m |-> [g.m EXCEPT
                            !.heap[g.p].values = shift_up(@, len, point, elt),
                            !.heap[g.p].len = len + 1],
                  p |-> box_as_leaf(g.p)]

(***************************************************************************)
(* intset_insert1: descend from node, whose slot is ref, to a null slot or *)
(* a leaf, and store there what the insertion returns.                     *)
(***************************************************************************)
intset_insert1(m, node, ref, elt) ==
    IF is_null(node)
    THEN LET r == new_leaf(m, elt) IN
         IF r.m.dead THEN r.m ELSE StoreRef(r.m, ref, box_as_leaf(r.p))
    ELSE IF tag_of(node) = INTSET_LEAF
    THEN StoreResult(insert_in_leaf(m, unbox_as_leaf(node), elt), ref)
    ELSE LET branch == unbox_as_branch(node)
             index == branch_index(m.heap[branch].mask, elt)
         IN  intset_insert1(m, m.heap[branch].ptrs[index + 1],
                            SlotRef(branch, index), elt)

(***************************************************************************)
(* intset_size1: a leaf's len, the sum over a branch's children.           *)
(***************************************************************************)
RECURSIVE intset_size1(_, _)

\* what the turns of the for loop for the children lo .. hi - 1 add to
\* count: the sum for the first half of the range and for the second half
RECURSIVE size_range(_, _, _, _)
size_range(heap, branch, lo, hi) ==
    IF hi <= lo THEN 0
    ELSE IF hi = lo + 1 THEN intset_size1(heap, heap[branch].ptrs[lo + 1])
    ELSE size_range(heap, branch, lo, (lo + hi) \div 2)
             + size_range(heap, branch, (lo + hi) \div 2, hi)

\* the for loop of intset_size1 from child i on, count being the sum so far
size_loop(heap, branch, i, count) == count + size_range(heap, branch, i, BRANCH_LEN)

\* intset_size1 counting a branch's children instead of their elements
intset_size1_slots(heap, node) ==
    IF is_null(node) THEN 0
    ELSE IF tag_of(node) = INTSET_LEAF THEN heap[unbox_as_leaf(node)].len
    ELSE Cardinality({i \in 1..BRANCH_LEN : ~is_null(heap[unbox_as_branch(node)].ptrs[i])})

intset_size1(heap, node) ==
    IF is_null(node) THEN 0
    ELSE IF tag_of(node) = INTSET_LEAF THEN heap[unbox_as_leaf(node)].len
    ELSE size_loop(heap, unbox_as_branch(node), 0, 0)

(***************************************************************************)
(* intset_contains1: descend to a null slot (absent) or a leaf (searched). *)
(***************************************************************************)
RECURSIVE intset_contains1(_, _, _)
intset_contains1(heap, node, elt) ==
    IF is_null(node) THEN FALSE
    ELSE IF tag_of(node) = INTSET_LEAF
    THEN LET leaf == heap[unbox_as_leaf(node)]
             i == find_in_block(leaf.values, leaf.len, elt)
         IN  i < leaf.len /\ leaf.values[i + 1] = elt
    ELSE LET branch == heap[unbox_as_branch(node)]
             i == branch_index(branch.mask, elt)
         IN  intset_contains1(heap, branch.ptrs[i + 1], elt)

\* remove_in_leaf's shift loop from len on: the last value is dropped
shift_down_last(values, len, point) == [i \in 1..(len - 1) |-> values[i]]

\* the shift loop of remove_in_leaf: values[point+1 .. len-1] move down
shift_down(values, len, point) ==
    [i \in 1..(len - 1) |-> IF i - 1 < point THEN values[i] ELSE values[i + 1]]

\* remove_in_leaf without the test for an absent element
remove_in_leaf_at(m, leaf, elt) ==
    LET len == m.heap[leaf].len
        point == find_in_block(m.heap[leaf].values, len, elt)
        at == IF point = len THEN len - 1 ELSE point
    IN  IF len = 1
        THEN [m |-> free(m, leaf), p |-> null_tagged_ptr]
        ELSE [m |-> [m EXCEPT !.heap[leaf].values = shift_down(@, len, at),
                              !.heap[leaf].len = len - 1],
              p |-> box_as_leaf(leaf)]

\* remove_in_leaf without the len == 1 case: the emptied leaf stays
remove_in_leaf_keep(m, leaf, elt) ==
    LET len == m.heap[leaf].len
        point == find_in_block(m.heap[leaf].values, len, elt)
    IN  IF point = len \/ m.heap[leaf].values[point + 1] # elt
        THEN [m |-> m, p |-> box_as_leaf(leaf)]
        ELSE [m |-> [m EXCEPT !.heap[leaf].values = shift_down(@, len, point),
                              !.heap[leaf].len = len - 1],
              p |-> box_as_leaf(leaf)]

\* remove_in_leaf that gives back the unused end of the block: the block
\* is left with room for the remaining elements only
remove_in_leaf_shrink(m, leaf, elt) ==
    LET len == m.heap[leaf].len
        point == find_in_block(m.heap[leaf].values, len, elt)
    IN  IF point = len \/ m.heap[leaf].values[point + 1] # elt
        THEN [m |-> m, p |-> box_as_leaf(leaf)]
        ELSE IF len = 1
        THEN [m |-> free(m, leaf), p |-> null_tagged_ptr]
        ELSE [m |-> [m EXCEPT !.heap[leaf].values = shift_down(@, len, point),
                              !.heap[leaf].len = len - 1,
                              !.heap[leaf].cap = len - 1],
              p |-> box_as_leaf(leaf)]

(***************************************************************************)
(* remove_in_leaf: nothing for an absent element; the last element frees   *)
(* the leaf and gives the null pointer; else the element is closed over.   *)
(***************************************************************************)
remove_in_leaf(m, leaf, elt) ==
    LET len == m.heap[leaf].len
        point == find_in_block(m.heap[leaf].values, len, elt)
    IN  IF point = len \/ m.heap[leaf].values[point + 1] # elt
        THEN [m |-> m, p |-> box_as_leaf(leaf)]
        ELSE IF len = 1
        THEN [m |-> free(m, leaf), p |-> null_tagged_ptr]
        ELSE [m |-> [m EXCEPT !.heap[leaf].values = shift_down(@, len, point),
                              !.heap[leaf].len = len - 1],
              p |-> box_as_leaf(leaf)]

\* intset_remove1 that frees the root branch once its last child is gone
RECURSIVE intset_remove1_collapse(_, _, _, _)
intset_remove1_collapse(m, node, ref, elt) ==
    IF is_null(node) THEN m
    ELSE IF tag_of(node) = INTSET_LEAF
    THEN LET r == remove_in_leaf(m, unbox_as_leaf(node), elt)
             m1 == StoreRef(r.m, ref, r.p)
         IN  IF /\ ref.b # NULL
                /\ m1.root = box_as_branch(ref.b)
                /\ \A i \in 1..BRANCH_LEN : is_null(m1.heap[ref.b].ptrs[i])
             THEN [free(m1, ref.b) EXCEPT !.root = null_tagged_ptr]
             ELSE m1
    ELSE LET branch == unbox_as_branch(node)
             i == branch_index(m.heap[branch].mask, elt)
         IN  intset_remove1_collapse(m, m.heap[branch].ptrs[i + 1], SlotRef(branch, i), elt)

(***************************************************************************)
(* intset_remove1: descend as insert does; a branch is never removed.      *)
(***************************************************************************)
RECURSIVE intset_remove1(_, _, _, _)
intset_remove1(m, node, ref, elt) ==
    IF is_null(node) THEN m
    ELSE IF tag_of(node) = INTSET_LEAF
    THEN LET r == remove_in_leaf(m, unbox_as_leaf(node), elt) IN
         StoreRef(r.m, ref, r.p)
    ELSE LET branch == unbox_as_branch(node)
             i == branch_index(m.heap[branch].mask, elt)
         IN  intset_remove1(m, m.heap[branch].ptrs[i + 1], SlotRef(branch, i), elt)

(***************************************************************************)
(* intset_destroy1: free the leaf, or the branch after its children.       *)
(***************************************************************************)
RECURSIVE intset_destroy1(_, _)

\* the turns of the for loop of intset_destroy1 for the children
\* lo .. hi - 1, in this order; nothing after undefined behaviour
RECURSIVE destroy_range(_, _, _, _)
destroy_range(m, branch, lo, hi) ==
    IF hi <= lo \/ m.ub THEN m
    ELSE IF hi = lo + 1 THEN intset_destroy1(m, m.heap[branch].ptrs[lo + 1])
    ELSE destroy_range(destroy_range(m, branch, lo, (lo + hi) \div 2),
                       branch, (lo + hi) \div 2, hi)

\* the for loop of intset_destroy1 from child i on
destroy_loop(m, branch, i) == destroy_range(m, branch, i, BRANCH_LEN)

\* intset_destroy1 without the loop over a branch's children
intset_destroy1_top(m, ptr) ==
    IF is_null(ptr) THEN m ELSE free(m, unbox_as_leaf(ptr))

intset_destroy1(m, ptr) ==
    IF is_null(ptr) THEN m
    ELSE IF tag_of(ptr) = INTSET_LEAF THEN free(m, unbox_as_leaf(ptr))
    ELSE LET branch == unbox_as_branch(ptr)
             m1 == destroy_loop(m, branch, 0)
         IN  IF m1.ub THEN m1 ELSE free(m1, branch)

(***************************************************************************)
(* The interface of intset.h on a set whose root is m.root.                *)
(***************************************************************************)
intset_init == 0

intset_destroy(m) == intset_destroy1(m, m.root)

intset_insert(m, elt) == intset_insert1(m, m.root, RootRef, elt)

intset_size(heap, rt) == intset_size1(heap, rt)

intset_contains(heap, rt, elt) == intset_contains1(heap, rt, elt)

\* intset_remove that returns at once
intset_remove_skip(m, elt) == m

intset_remove(m, elt) == intset_remove1(m, m.root, RootRef, elt)

(***************************************************************************)
(* Addresses are opaque to the program: it stores, loads and dereferences  *)
(* them and looks at nothing but the tag bits.  Two heaps that differ by a *)
(* renaming of addresses therefore behave alike, and the state between two *)
(* operations is kept in one naming: the block reached first from a root   *)
(* along the slots i1, i2, ... is named by that path, a block no root      *)
(* reaches (a leak) by its rank among such blocks, and every pointer to a  *)
(* block that is not live (a dangling pointer) by DeadAddr.                *)
(***************************************************************************)
PathBase == BRANCH_LEN + 1

LeakBase == 2 ^ 28

DeadAddr == ALIGN * (LeakBase - 1)

RECURSIVE name_node(_, _, _, _)

\* the children lo .. hi - 1 of a branch named in this order; nothing is
\* left to name once every block has its name
RECURSIVE name_range(_, _, _, _, _, _)
name_range(old, seen, branch, code, lo, hi) ==
    IF hi <= lo \/ DOMAIN seen = DOMAIN old THEN seen
    ELSE IF hi = lo + 1
    THEN name_node(old, seen, old[branch].ptrs[lo + 1], code * PathBase + lo + 1)
    ELSE name_range(old, name_range(old, seen, branch, code, lo, (lo + hi) \div 2),
                    branch, code, (lo + hi) \div 2, hi)

name_children(old, seen, branch, code, i) ==
    name_range(old, seen, branch, code, i, BRANCH_LEN)

\* seen: the new address of every block named so far
name_node(old, seen, ptr, code) ==
    IF is_null(ptr) THEN seen
    ELSE LET a == unbox_as_leaf(ptr) IN
         IF a \in DOMAIN seen \/ a \notin DOMAIN old THEN seen
         ELSE LET seen1 == Store(seen, a, ALIGN * code) IN
              IF old[a].kind = "leaf" THEN seen1
              ELSE name_children(old, seen1, a, code, 0)

Renaming(rt, rtB, old) ==
    LET seen == name_node(old, name_node(old, [a \in {} |-> 0], rt, 1), rtB, 2)
        leaks == (DOMAIN old) \ (DOMAIN seen)
    IN  [a \in DOMAIN old |->
            IF a \in DOMAIN seen THEN seen[a]
            ELSE ALIGN * (LeakBase + Cardinality({b \in leaks : b < a}))]

RenamePtr(ren, ptr) ==
    IF is_null(ptr) THEN ptr
    ELSE LET a == unbox_as_leaf(ptr) IN
         (IF a \in DOMAIN ren THEN ren[a] ELSE DeadAddr) + tag_of(ptr)

RenameCell(ren, cell) ==
    IF cell.kind = "leaf" THEN cell
    ELSE [cell EXCEPT !.ptrs = [i \in 1..BRANCH_LEN |-> RenamePtr(ren, cell.ptrs[i])]]

\* the roots and the heap of a state in the naming above; `before' is the
\* set of live addresses of the (already so named) state the operation
\* started from: an operation that neither allocated nor freed keeps it
Canon(rt, rtB, hp, before) ==
    IF DOMAIN hp = before THEN [root |-> rt, rootB |-> rtB, heap |-> hp]
    ELSE LET ren == Renaming(rt, rtB, hp)
             inv == [n \in {ren[a] : a \in DOMAIN hp} |-> CHOOSE a \in DOMAIN hp : ren[a] = n]
         IN  [root |-> RenamePtr(ren, rt),
              rootB |-> RenamePtr(ren, rtB),
              heap |-> [n \in DOMAIN inv |-> RenameCell(ren, hp[inv[n]])]]

(***************************************************************************)
(* The state.                                                              *)
(*   root    set->root of the set under test                               *)
(*   rootB   the root of a second set of the same process                  *)
(*   heap    the live blocks of the process                                *)
(*   status  "running"; "destroyed" after intset_destroy, until the next   *)
(*           intset_init; "aborted" once oom_die has ended the process;    *)
(*           "undefined" after undefined behaviour                         *)
(* and, for stating the properties,                                        *)
(*   model   the integers whose most recent operation on the set under     *)
(*           test was an insert                                            *)
(*   nsplit, nsplitB  the calls of split_leaf_insert on each set since its *)
(*           intset_init                                                   *)
(*   last    the last operation (op), whether its argument was a member    *)
(*           before it (had), the allocation site that failed in it        *)
(*           (failed); for an insert its argument (x) and its calls of     *)
(*           split_leaf_insert (split); for the insert of a non-member the *)
(*           size before it (psize), the capacity before it of the leaf it *)
(*           went to (pcap, 0 for a null slot) and, when it split a leaf,  *)
(*           the elements differing_bits read (read) and the root and the  *)
(*           heap before it (proot, pheap); for the insert of a member the *)
(*           root and the heap before it; for a remove of x that directly  *)
(*           follows the insert of the non-member x, x, the size before    *)
(*           that insert (rt, otherwise -1) and that insert's split; for   *)
(*           the remove of a non-member its argument (x) and the root and  *)
(*           the heap before it (proot, pheap); for a destroy the size     *)
(*           before it (psize)                                             *)
(*   pos     the workload on the set under test: how many values of the    *)
(*           script the caller has pushed and not popped                   *)
(*   list, perm, kA, kB  the two-set workload: the list of values both     *)
(*           sets receive, the order in which the second set receives it,  *)
(*           and how many inserts each set has had                         *)
(*   route   the caller of branch_index alone: its arguments (mask, x) and *)
(*           the index it returned (index, -1 before the call)             *)
(***************************************************************************)
VARIABLES root, rootB, heap, status, model, nsplit, nsplitB, last, pos, list, perm, kA, kB,
          route

vars == <<root, rootB, heap, status, model, nsplit, nsplitB, last, pos, list, perm, kA, kB,
          route>>

(***************************************************************************)
(* Bounds of the workloads.                                                *)
(*   MaxPos    the most values of the script pushed at once                *)
(*   NumDups   how many values the two-set workload inserts twice          *)
(*   NumPerms  the orders 1..NumPerms are used                             *)
(***************************************************************************)
MaxPos == 66
NumDups == 2
NumPerms == 3

\* the values the caller inserts and removes at any time
Extras == {7}

\* The i-th value of the script: 0, 31, 1023, then 32767 + 32768 u for
\* u = 0, 1, ... without u = 5.  All but the first have bits 0..4 set, all
\* but the first two bits 5..9, all but the first three bits 10..14: a split
\* sends all but one of a leaf's elements to the same child.
Script(i) ==
    IF i = 1 THEN 0
    ELSE IF i = 2 THEN 31
    ELSE IF i = 3 THEN 1023
    ELSE 32767 + 32768 * (IF i - 4 < 5 THEN i - 4 ELSE i - 3)

ScriptValues == {Script(i) : i \in 1..(MaxPos + 1)}

\* the values whose membership is observed
Universe == ScriptValues \cup Extras \cup {5, 32767 + 32768 * 5}

Machine(rt, f, mv) ==
    [root |-> rt, heap |-> heap, fail |-> f, mv |-> mv, failed |-> NoFail,
     dead |-> FALSE, ub |-> FALSE, used |-> {}, nsplit |-> 0, read |-> 0]

Size == intset_size(heap, root)

Contains(y) == intset_contains(heap, root, y)

\* the leaf at which the descent of insert, remove and contains for elt
\* ends in the tree below node, NULL when it ends at a null slot
RECURSIVE LeafOf(_, _, _)
LeafOf(hp, node, elt) ==
    IF is_null(node) THEN NULL
    ELSE IF tag_of(node) = INTSET_LEAF THEN unbox_as_leaf(node)
    ELSE LET branch == hp[unbox_as_branch(node)] IN
         LeafOf(hp, branch.ptrs[branch_index(branch.mask, elt) + 1], elt)

\* the capacity of the block `leaf', 0 for NULL
CapOf(hp, leaf) == IF leaf = NULL THEN 0 ELSE hp[leaf].cap

\* the observed members of the set under test
Members == {y \in Universe : Contains(y)}

\* the record of an operation op, to be filled in
Op(op) ==
    [op |-> op, x |-> 0, had |-> FALSE, psize |-> 0, rt |-> -1, split |-> 0,
     failed |-> NoFail, proot |-> NULL, pheap |-> EmptyHeap, pcap |-> 0, read |-> 0]

\* no call of branch_index alone
NoRoute == [mask |-> 0, x |-> 0, index |-> -1]

Fresh ==
    /\ root = intset_init
    /\ rootB = intset_init
    /\ heap = EmptyHeap
    /\ status = "running"
    /\ model = {}
    /\ nsplit = 0
    /\ nsplitB = 0
    /\ last = Op("init")
    /\ pos = 0
    /\ kA = 0
    /\ kB = 0

Init ==
    /\ Fresh
    /\ list = 0
    /\ perm = 0
    /\ route = NoRoute

NextPush == IF pos < MaxPos THEN {Script(pos + 1)} ELSE {}

Top == IF pos > 0 THEN {Script(pos)} ELSE {}

InsertInputs == NextPush \cup Top \cup Extras

RemoveInputs == Top \cup {Script(pos + 1)} \cup Extras

\* the process is gone, and its memory with it
Gone(how, op) ==
    /\ status' = how
    /\ root' = NULL
    /\ rootB' = NULL
    /\ heap' = EmptyHeap
    /\ model' = {}
    /\ nsplit' = 0
    /\ nsplitB' = 0
    /\ pos' = 0
    /\ kA' = 0
    /\ kB' = 0
    /\ last' = op

\* the set under test after an operation that left the machine m
SetIs(m) ==
    LET c == Canon(m.root, rootB, m.heap, DOMAIN heap) IN
    /\ root' = c.root
    /\ rootB' = c.rootB
    /\ heap' = c.heap

\* intset_insert(&set, x) has run on machine m
Inserted(x, m) ==
    IF m.ub \/ m.dead
    THEN Gone(IF m.ub THEN "undefined" ELSE "aborted",
              [Op("insert") EXCEPT !.had = x \in model, !.failed = m.failed])
    ELSE /\ SetIs(m)
         /\ status' = status
         /\ model' = model \cup {x}
         /\ nsplit' = nsplit + m.nsplit
         /\ pos' = IF pos < MaxPos /\ x = Script(pos + 1) THEN pos + 1 ELSE pos
         /\ last' = IF x \in model
                    THEN [Op("insert") EXCEPT !.x = x, !.had = TRUE, !.failed = m.failed,
                                              !.split = m.nsplit,
                                              !.proot = root, !.pheap = heap]
                    ELSE [Op("insert") EXCEPT !.x = x, !.failed = m.failed,
                                              !.psize = Size, !.split = m.nsplit,
                                              !.pcap = CapOf(heap, LeafOf(heap, root, x)),
                                              !.read = m.read,
                                              !.proot = IF m.nsplit > 0 THEN root ELSE NULL,
                                              !.pheap = IF m.nsplit > 0 THEN heap
                                                        ELSE EmptyHeap]
         /\ UNCHANGED <<nsplitB, kA, kB>>

\* intset_insert(&set, x) with every allocation succeeding; mv: realloc
\* moves the blocks it resizes (a call without realloc has mv = FALSE)
Insert(x, mv) ==
    /\ status = "running"
    /\ x \in InsertInputs
    /\ mv => intset_insert(Machine(root, NoFail, FALSE), x).used
                 \cap {"insert_in_leaf", "insert_ordered"} # {}
    /\ Inserted(x, intset_insert(Machine(root, NoFail, mv), x))
    /\ UNCHANGED <<list, perm, route>>

\* intset_insert(&set, x) with the allocator failing at `site', one of the
\* allocation sites the call reaches
InsertOom(x, site) ==
    /\ status = "running"
    /\ x \in InsertInputs
    /\ site \in intset_insert(Machine(root, NoFail, FALSE), x).used
    /\ Inserted(x, intset_insert(Machine(root, site, FALSE), x))
    /\ UNCHANGED <<list, perm, route>>

\* intset_remove(&set, x) has run on machine m
Removed(x, m) ==
    IF m.ub THEN Gone("undefined", [Op("remove") EXCEPT !.had = x \in model])
    ELSE /\ SetIs(m)
         /\ status' = status
         /\ model' = model \ {x}
         /\ pos' = IF pos > 0 /\ x = Script(pos) THEN pos - 1 ELSE pos
         /\ last' = IF last.op = "insert" /\ ~last.had /\ last.x = x
                    THEN [Op("remove") EXCEPT !.x = x, !.had = TRUE, !.rt = last.psize,
                                              !.split = last.split]
                    ELSE IF x \in model
                    THEN [Op("remove") EXCEPT !.had = TRUE]
                    ELSE [Op("remove") EXCEPT !.x = x, !.proot = root, !.pheap = heap]
         /\ UNCHANGED <<nsplit, nsplitB, kA, kB>>

\* intset_remove(&set, x)
Remove(x) ==
    /\ status = "running"
    /\ x \in RemoveInputs
    /\ Removed(x, intset_remove(Machine(root, NoFail, FALSE), x))
    /\ UNCHANGED <<list, perm, route>>

\* intset_destroy(&set) has run on machine m: the root keeps its value,
\* which now dangles
Destroyed(m) ==
    IF m.ub THEN Gone("undefined", Op("destroy"))
    ELSE /\ SetIs(m)
         /\ status' = "destroyed"
         /\ model' = {}
         /\ pos' = 0
         /\ last' = [Op("destroy") EXCEPT !.psize = Size]
         /\ UNCHANGED <<nsplit, nsplitB, kA, kB>>

\* intset_destroy(&set)
Destroy ==
    /\ status = "running"
    /\ Destroyed(intset_destroy(Machine(root, NoFail, FALSE)))
    /\ UNCHANGED <<list, perm, route>>

\* intset_init(&set) on a destroyed set, before the caller's next workload
IntsetInit ==
    /\ status = "destroyed"
    /\ status' = "running"
    /\ root' = intset_init
    /\ model' = {}
    /\ nsplit' = 0
    /\ pos' = 0
    /\ last' = Op("init")
    /\ UNCHANGED <<rootB, heap, nsplitB, list, perm, kA, kB, route>>

Next ==
    \/ \E x \in InsertInputs, mv \in BOOLEAN : Insert(x, mv)
    \/ \E x \in InsertInputs, site \in Sites : InsertOom(x, site)
    \/ \E x \in RemoveInputs : Remove(x)
    \/ Destroy
    \/ IntsetInit

Spec == Init /\ [][Next]_vars

(***************************************************************************)
(* The two-set workload: the set under test receives the values of a list  *)
(* in the list's order, a second set of the same process receives the same *)
(* inserts in another order.  A list is LEAF_SIZE_THRESHOLD + 1 distinct   *)
(* values followed by NumDups of them once more.                           *)
(***************************************************************************)
Lists == {1, 2, 3}

ListLen == LEAF_SIZE_THRESHOLD + 1

\* list 1: 0..64; list 2: 0 and 33..96; list 3: the script
Item(l, j) ==
    IF l = 1 THEN j - 1
    ELSE IF l = 2 THEN (IF j = 1 THEN 0 ELSE 31 + j)
    ELSE Script(j)

DupOf(i) == 1 + ((21 * i) % ListLen)

SeqLen == ListLen + NumDups

SeqA(l, k) == IF k <= ListLen THEN Item(l, k) ELSE Item(l, DupOf(k - ListLen))

Riffle(k) == IF 2 * k - 1 <= SeqLen THEN 2 * k - 1 ELSE 2 * (k - (SeqLen + 1) \div 2)

\* the orders: backwards, the second half first, odd places first, and
\* odd places first backwards
Order(p, k) ==
    IF p = 1 THEN SeqLen + 1 - k
    ELSE IF p = 2 THEN 1 + ((k - 1 + SeqLen \div 2) % SeqLen)
    ELSE IF p = 3 THEN Riffle(k)
    ELSE SeqLen + 1 - Riffle(k)

SeqB(l, p, k) == SeqA(l, Order(p, k))

ModelB == {SeqB(list, perm, k) : k \in 1..kB}

UniverseP == {Item(list, j) : j \in 1..ListLen} \cup {65, 97, 5000}

InitPerm ==
    /\ Fresh
    /\ list \in Lists
    /\ perm \in 1..NumPerms
    /\ route = NoRoute

\* the second set after an operation that left the machine m
SetIsB(m) ==
    LET c == Canon(root, m.root, m.heap, DOMAIN heap) IN
    /\ root' = c.root
    /\ rootB' = c.rootB
    /\ heap' = c.heap

\* intset_insert(&set, x) has run on machine m
InsertedA(x, m) ==
    IF m.ub \/ m.dead
    THEN Gone(IF m.ub THEN "undefined" ELSE "aborted", last)
    ELSE /\ SetIs(m)
         /\ model' = model \cup {x}
         /\ nsplit' = nsplit + m.nsplit
         /\ kA' = kA + 1
         /\ UNCHANGED <<status, nsplitB, last, pos, kB>>

\* intset_insert(&setB, x) has run on machine m
InsertedB(m) ==
    IF m.ub \/ m.dead
    THEN Gone(IF m.ub THEN "undefined" ELSE "aborted", last)
    ELSE /\ SetIsB(m)
         /\ nsplitB' = nsplitB + m.nsplit
         /\ kB' = kB + 1
         /\ UNCHANGED <<status, model, nsplit, last, pos, kA>>

\* the next intset_insert on the set under test
PermInsertA(mv) ==
    /\ status = "running"
    /\ list \in Lists
    /\ kA < SeqLen
    /\ kA = kB
    /\ InsertedA(SeqA(list, kA + 1),
                 intset_insert(Machine(root, NoFail, mv), SeqA(list, kA + 1)))
    /\ UNCHANGED <<list, perm, route>>

\* the next intset_insert on the second set
PermInsertB(mv) ==
    /\ status = "running"
    /\ list \in Lists
    /\ kB < kA
    /\ InsertedB(intset_insert(Machine(rootB, NoFail, mv), SeqB(list, perm, kB + 1)))
    /\ UNCHANGED <<list, perm, route>>

NextPerm ==
    \/ \E mv \in BOOLEAN : PermInsertA(mv)
    \/ \E mv \in BOOLEAN : PermInsertB(mv)

SpecPerm == InitPerm /\ [][NextPerm]_vars

(***************************************************************************)
(* branch_index alone: a caller that calls branch_index(mask, x) once, for *)
(* a mask of exactly BRANCH_BITS bits.  The masks take their bits in a     *)
(* window of MaskTop + 1 bit positions, at the low end of the word or at   *)
(* its high end; the values take all bit patterns of either window, or are *)
(* all ones.                                                               *)
(***************************************************************************)
MaskTop == 5

Shifts == {0, WordBits - 1 - MaskTop}

Window == 0..(2 ^ (MaskTop + 1) - 1)

\* the positions of the bits set in mask
BitsOf(mask) == {p \in 0..(WordBits - 1) : (mask \div (2 ^ p)) % 2 = 1}

\* bit p of v
BitAt(v, p) == (v \div (2 ^ p)) % 2

RouteMasks ==
    {w * (2 ^ sh) : w \in {v \in Window : Cardinality(BitsOf(v)) = BRANCH_BITS},
                    sh \in Shifts}

RouteValues == {w * (2 ^ sh) : w \in Window, sh \in Shifts} \cup {UINT_MOD - 1}

InitIndex ==
    /\ Fresh
    /\ list = 0
    /\ perm = 0
    /\ route \in [mask : RouteMasks, x : RouteValues, index : {-1}]

\* index = branch_index(mask, x)
BranchIndex ==
    /\ route.index = -1
    /\ route' = [route EXCEPT !.index = branch_index(route.mask, route.x)]
    /\ UNCHANGED <<root, rootB, heap, status, model, nsplit, nsplitB, last, pos,
                   list, perm, kA, kB>>

NextIndex == BranchIndex

SpecIndex == InitIndex /\ [][NextIndex]_vars

(***************************************************************************)
(* The properties.                                                         *)
(***************************************************************************)

\* every leaf of the heap
Leaves == {a \in DOMAIN heap : heap[a].kind = "leaf"}

\* how the descent of contains/remove for elt ends: "empty" at a null
\* slot, "leaf" at a leaf
RECURSIVE DescentEnd(_, _)
DescentEnd(node, elt) ==
    IF is_null(node) THEN "empty"
    ELSE IF tag_of(node) = INTSET_LEAF THEN "leaf"
    ELSE LET branch == heap[unbox_as_branch(node)] IN
         DescentEnd(branch.ptrs[branch_index(branch.mask, elt) + 1], elt)

(* C1: after any sequence of insert and remove calls on an initialized     *)
(* set, contains(S, x) is true exactly for the x whose most recent         *)
(* operation was an insert: the set agrees with the mathematical set       *)
(* `model' stepped by the same operations, and no operation is undefined.  *)
C1_Refinement ==
    /\ status # "undefined"
    /\ status = "running" => Members = model

\* C1's case: after two splits, removals have left branches behind
C1_Witness ==
    /\ status = "running"
    /\ nsplit = 2
    /\ last.op = "remove"
    /\ model = Extras
    /\ tag_of(root) = INTSET_BRANCH

(* C2: after any sequence of insert and remove calls, size(S) is the       *)
(* number of distinct members (0 for a freshly initialized set), whatever  *)
(* the shape of the tree.                                                  *)
C2_Size ==
    /\ status # "undefined"
    /\ status = "running" => Size = Cardinality(model)

\* C2's case: the members are spread over the leaves of a tree of depth 2
C2_Witness ==
    /\ status = "running"
    /\ nsplit = 2
    /\ Size = MaxPos + 1

(* C3: inserting an x that already is a member changes neither size nor    *)
(* any contains result: after such an insert both are what they were       *)
(* before it.                                                              *)
C3_Idempotent ==
    (last.op = "insert" /\ last.had)
        => /\ status = "running"
           /\ Size = intset_size(last.pheap, last.proot)
           /\ \A y \in Universe :
                 Contains(y) <=> intset_contains(last.pheap, last.proot, y)

\* C3's case: a member was inserted again, below a branch
C3_Witness ==
    /\ status = "running"
    /\ last.op = "insert"
    /\ last.had
    /\ tag_of(root) = INTSET_BRANCH

(* C4: remove(S, x) for an x that is not a member leaves size and every    *)
(* contains result unchanged, whether the descent for x ends at an empty   *)
(* slot or at a leaf.                                                      *)
C4_RemoveAbsent ==
    (last.op = "remove" /\ ~last.had)
        => /\ status = "running"
           /\ Size = intset_size(last.pheap, last.proot)
           /\ \A y \in Universe :
                 Contains(y) <=> intset_contains(last.pheap, last.proot, y)

\* C4's case: a non-member was removed whose descent ends at an empty slot
\* of a branch
C4_Witness ==
    /\ status = "running"
    /\ last.op = "remove"
    /\ ~last.had
    /\ tag_of(root) = INTSET_BRANCH
    /\ DescentEnd(root, last.x) = "empty"

(* C5: where x is not a member, insert(S, x) followed by remove(S, x)      *)
(* restores size to its value before the insert and leaves contains(S, x)  *)
(* false.                                                                  *)
C5_InsertRemove ==
    last.rt >= 0 => /\ status = "running"
                    /\ Size = last.rt
                    /\ ~Contains(last.x)

\* C5's case: the insert split a leaf
C5_Witness ==
    /\ last.op = "remove"
    /\ last.rt >= 0
    /\ last.split > 0

\* the inserts the set under test and the second set have had are the same
\* multiset
SameInserts ==
    \A v \in UniverseP :
        Cardinality({k \in 1..kA : SeqA(list, k) = v})
            = Cardinality({k \in 1..kB : SeqB(list, perm, k) = v})

(* C6: two freshly initialized sets that have had the same multiset of     *)
(* inserts, in different orders, have the same size and the same           *)
(* contains(S, y) for every y.                                             *)
C6_OrderIndependent ==
    /\ status = "running"
    /\ SameInserts =>
          /\ intset_size(heap, root) = intset_size(heap, rootB)
          /\ \A y \in UniverseP :
                intset_contains(heap, root, y) <=> intset_contains(heap, rootB, y)

\* C6's case: both sets have had the whole list, and their splits chose
\* different masks
C6_Witness ==
    /\ kA = SeqLen
    /\ kB = SeqLen
    /\ tag_of(root) = INTSET_BRANCH
    /\ tag_of(rootB) = INTSET_BRANCH
    /\ heap[unbox_as_branch(root)].mask # heap[unbox_as_branch(rootB)].mask

\* a set with root rt that has had the inserts of `ins' and `splits' calls
\* of split_leaf_insert: no split up to the threshold, one split, the right
\* size and the right members at one element more
SplitOnce(rt, splits, ins) ==
    /\ Cardinality(ins) <= LEAF_SIZE_THRESHOLD => splits = 0
    /\ Cardinality(ins) = LEAF_SIZE_THRESHOLD + 1 =>
          /\ splits = 1
          /\ intset_size(heap, rt) = LEAF_SIZE_THRESHOLD + 1
          /\ \A y \in UniverseP : intset_contains(heap, rt, y) <=> y \in ins

(* C7: inserting LEAF_SIZE_THRESHOLD + 1 = 65 distinct elements (such as   *)
(* 0..64) into a freshly initialized set calls split_leaf_insert exactly   *)
(* once, at the 65th, and then size is 65 and contains is true for the     *)
(* inserted values and false for the others.                               *)
C7_SplitOnce ==
    /\ status = "running"
    /\ SplitOnce(root, nsplit, model)
    /\ SplitOnce(rootB, nsplitB, ModelB)

\* C7's case: 0..64 inserted in ascending order
C7_Witness ==
    /\ list = 1
    /\ model = 0..LEAF_SIZE_THRESHOLD
    /\ nsplit = 1

(* C8: when all inserted values have been removed size is 0, and           *)
(* intset_destroy frees every block: as many blocks are live after it as   *)
(* before the first insert, none.                                          *)
C8_Teardown ==
    /\ status # "undefined"
    /\ (status = "running" /\ model = {}) => Size = 0
    /\ status = "destroyed" => DOMAIN heap = {}

\* C8's case: destroy of a set of size 0 that had split twice
C8_Witness ==
    /\ status = "destroyed"
    /\ last.psize = 0
    /\ nsplit = 2

(* C9: an allocation that fails at an allocation site of insert ends the   *)
(* process: the step in which it fails ends in "aborted", and an aborted   *)
(* process takes no further step.                                          *)
C9_OomAborts ==
    [][/\ status # "aborted"
       /\ last'.failed # NoFail => status' = "aborted"]_vars

\* C9's case: realloc failed in the ordered append of a split
C9_Witness ==
    /\ status = "aborted"
    /\ last.failed = "insert_ordered"

(* C10: every leaf holds a strictly ascending sequence of at least 1 and   *)
(* at most LEAF_SIZE_THRESHOLD = 64 values.                                *)
C10_LeafInvariant ==
    /\ status # "undefined"
    /\ \A a \in Leaves :
          /\ heap[a].len >= 1
          /\ heap[a].len <= LEAF_SIZE_THRESHOLD
          /\ Len(heap[a].values) = heap[a].len
          /\ \A i \in 1..(heap[a].len - 1) : heap[a].values[i] < heap[a].values[i + 1]

\* C10's case: a full leaf below a branch, and a slot of the branch that is
\* null again since the remove just made freed its one-element leaf
C10_Witness ==
    /\ status = "running"
    /\ tag_of(root) = INTSET_BRANCH
    /\ last.op = "remove"
    /\ last.had
    /\ last.x \in Extras
    /\ DescentEnd(root, last.x) = "empty"
    /\ \E a \in Leaves : heap[a].len = LEAF_SIZE_THRESHOLD


\* every branch of the heap
Branches == {a \in DOMAIN heap : heap[a].kind = "branch"}

(* C11: whenever a leaf of 64 distinct elements is split, at any depth,    *)
(* differing_bits ends without reading past the leaf's elements and gives  *)
(* a mask of exactly BRANCH_BITS = 5 bits, each of them a bit in which     *)
(* some element of the leaf differs from the leaf's first element; every   *)
(* branch of the heap has such a mask of 5 bits.                           *)
C11_MaskSelection ==
    /\ status # "undefined"
    /\ \A b \in Branches :
          /\ heap[b].mask < UINT_MOD
          /\ Cardinality(BitsOf(heap[b].mask)) = BRANCH_BITS
    /\ (status = "running" /\ last.op = "insert" /\ last.split > 0) =>
          LET leaf == LeafOf(last.pheap, last.proot, last.x)
              a == last.pheap[leaf].values
          IN  /\ Len(a) = LEAF_SIZE_THRESHOLD
              /\ last.read \in 1..Len(a)
              /\ leaf \in Branches
              /\ Cardinality(BitsOf(heap[leaf].mask)) = BRANCH_BITS
              /\ \A p \in BitsOf(heap[leaf].mask) :
                    \E i \in 1..Len(a) : BitAt(a[i], p) # BitAt(a[1], p)

\* C11's case: the insert just made split a full leaf below a branch
C11_Witness ==
    /\ status = "running"
    /\ last.op = "insert"
    /\ last.split > 0
    /\ tag_of(last.proot) = INTSET_BRANCH


\* the capacities a block can have: the powers of two up to the threshold
Pow2s == {2 ^ k : k \in 0..6}

\* the smallest power of two that is at least n, for n in 1..64
NextPow2(n) == CHOOSE c \in Pow2s : c >= n /\ c < 2 * n

\* the insert just made added its argument to a leaf or made a leaf for
\* it, without a split
LastGrew ==
    /\ status = "running"
    /\ last.op = "insert"
    /\ ~last.had
    /\ last.split = 0

(* C12 as stated: every leaf's capacity equals the smallest power of two   *)
(* that is at least its length, and an insert that adds an element to a    *)
(* leaf doubles its capacity exactly when the leaf's length was a power of *)
(* two.                                                                    *)
C12_Original ==
    /\ \A a \in Leaves : heap[a].cap = NextPow2(heap[a].len)
    /\ (LastGrew /\ last.pcap > 0) =>
          LET leaf == heap[LeafOf(heap, root, last.x)] IN
          (leaf.cap = 2 * last.pcap) <=> (leaf.len - 1) \in Pow2s

(* C12, amended: every leaf's capacity is a power of two that is at least  *)
(* the smallest power of two at or above its length n (n >= 1); it equals  *)
(* that power of two right after the block is allocated (1 for a new leaf) *)
(* or reallocated; an insert that adds an element to a leaf of length n    *)
(* reallocates the block, to twice n, exactly when n is a power of two     *)
(* (below the threshold, where the leaf is split), and leaves the capacity *)
(* as it was otherwise.                                                    *)
C12_Capacity ==
    /\ status # "undefined"
    /\ \A a \in Leaves :
          /\ heap[a].cap \in Pow2s
          /\ heap[a].cap >= NextPow2(heap[a].len)
    /\ LastGrew =>
          LET leaf == heap[LeafOf(heap, root, last.x)]
              n == leaf.len - 1
          IN  IF n = 0 THEN last.pcap = 0 /\ leaf.cap = 1
              ELSE IF n \in Pow2s THEN leaf.cap = 2 * n /\ leaf.cap = NextPow2(leaf.len)
              ELSE leaf.cap = last.pcap

\* C12's case: removes had left the root leaf a capacity above twice its
\* length when the insert just made reallocated it, to a smaller block
C12_Witness ==
    /\ LastGrew
    /\ tag_of(root) = INTSET_LEAF
    /\ last.pcap > heap[unbox_as_leaf(root)].cap


\* Where the descents below node end: for every null slot and every leaf
\* the pointer (node), the number of branches above it (depth), the bit
\* positions of their masks (bits) and whether no two of these masks share
\* a bit (disjoint); d, bits and ok are those of the branches above node.
RECURSIVE Ends(_, _, _, _)
Ends(node, d, bits, ok) ==
    IF is_null(node) \/ tag_of(node) = INTSET_LEAF
    THEN {[node |-> node, depth |-> d, bits |-> bits, disjoint |-> ok]}
    ELSE LET branch == heap[unbox_as_branch(node)]
             mb == BitsOf(branch.mask)
         IN  UNION {Ends(branch.ptrs[i], d + 1, bits \cup mb, ok /\ mb \cap bits = {})
                      : i \in 1..BRANCH_LEN}

\* ceil(W / 5)
MaxDepth == (WordBits + BRANCH_BITS - 1) \div BRANCH_BITS

(* C13: in every state reachable by insert and remove, every descent from  *)
(* the root reaches a leaf or an empty slot below at most ceil(W / 5)      *)
(* branches, W the width of the integers: the d branches above it have     *)
(* masks that take 5 d distinct bit positions of the W.                    *)
C13_DepthBound ==
    /\ status # "undefined"
    /\ status = "running" =>
          \A e \in Ends(root, 0, {}, TRUE) :
              /\ e.depth <= MaxDepth
              /\ e.bits \subseteq 0..(WordBits - 1)
              /\ Cardinality(e.bits) = BRANCH_BITS * e.depth

\* C13's case: a leaf below a branch below the root branch
C13_Witness ==
    /\ status = "running"
    /\ \E e \in Ends(root, 0, {}, TRUE) : e.depth = 2 /\ tag_of(e.node) = INTSET_LEAF


(* C14: a slot that holds a branch holds the same branch, with the same    *)
(* mask, after every later insert or remove: in a step between two running *)
(* states every branch of the heap stays where it is (a block's address    *)
(* names the slots that lead to it) with its mask, and a root that is a    *)
(* branch stays.  Only destroy, or the end of the process, takes a branch  *)
(* away.                                                                   *)
C14_NoCollapse ==
    [][(status = "running" /\ status' = "running") =>
          /\ tag_of(root) = INTSET_BRANCH => root' = root
          /\ \A b \in Branches :
                /\ b \in DOMAIN heap'
                /\ heap'[b].kind = "branch"
                /\ heap'[b].mask = heap[b].mask]_vars

\* C14's case: removes have emptied every child of a branch, the set has
\* size 0 and its root still is a branch
C14_Witness ==
    /\ status = "running"
    /\ last.op = "remove"
    /\ model = {}
    /\ Size = 0
    /\ tag_of(root) = INTSET_BRANCH
    /\ \E b \in Branches : \A i \in 1..BRANCH_LEN : is_null(heap[b].ptrs[i])


\* the values with every bit pattern at the positions from the mask's
\* lowest bit up to its highest
RouteOthers(mask) ==
    LET low == CHOOSE p \in BitsOf(mask) : \A q \in BitsOf(mask) : p <= q IN
    {w * (2 ^ low) : w \in Window}

(* C15: for a mask of exactly 5 bits, index(mask, x) is in 0..31, its bit  *)
(* k is x's bit at the mask's k-th position counted from the least         *)
(* significant, and index(mask, y) = index(mask, x) exactly for the y that *)
(* agree with x at all 5 positions of the mask.                            *)
C15_Routing ==
    route.index # -1 =>
        LET mb == BitsOf(route.mask) IN
        /\ Cardinality(mb) = BRANCH_BITS
        /\ route.index \in 0..(BRANCH_LEN - 1)
        /\ \A p \in mb :
              BitAt(route.index, Cardinality({q \in mb : q < p})) = BitAt(route.x, p)
        /\ \A y \in RouteOthers(route.mask) :
              (branch_index(route.mask, y) = route.index)
                  <=> (\A p \in mb : BitAt(y, p) = BitAt(route.x, p))

\* C15's case: a mask at the high end of the word whose bits are not
\* adjacent, and an x with some but not all of its bits
C15_Witness ==
    /\ route.index \in 1..(BRANCH_LEN - 2)
    /\ route.mask >= 2 ^ (WordBits - 1)
    /\ (WordBits - 3) \notin BitsOf(route.mask)


\* the insert just made was of a member that sat in a full leaf
LastDupInFull ==
    /\ last.op = "insert"
    /\ last.had
    /\ LeafOf(last.pheap, last.proot, last.x) # NULL
    /\ last.pheap[LeafOf(last.pheap, last.proot, last.x)].len = LEAF_SIZE_THRESHOLD

(* C16: inserting an element that already is in a leaf of exactly          *)
(* LEAF_SIZE_THRESHOLD = 64 elements does not split: the leaf, its slot    *)
(* and the rest of the tree are as before the insert; an insert splits     *)
(* only when its element was not a member.                                 *)
C16_DuplicateNoSplit ==
    /\ LastDupInFull =>
          /\ status = "running"
          /\ last.split = 0
          /\ root = last.proot
          /\ heap = last.pheap
    /\ (last.op = "insert" /\ last.split > 0) => ~last.had

\* C16's case: a member was inserted again into a full leaf below a branch
C16_Witness ==
    /\ status = "running"
    /\ LastDupInFull
    /\ tag_of(root) = INTSET_BRANCH


\* the non-null pointers held by the slots: the two roots and the child
\* slots of every branch, each with its place
Held ==
    {s \in ({<<NULL, 0, root>>, <<NULL, 1, rootB>>}
              \cup {<<b, i, heap[b].ptrs[i]>> : b \in Branches, i \in 1..BRANCH_LEN}) :
        ~is_null(s[3])}

(* C17: between operations every live block is referenced by exactly one   *)
(* slot (a root or one child slot of one branch) and every non-null slot   *)
(* references a live block of the kind its tag says: no block is leaked,   *)
(* none is aliased, no reference dangles.                                  *)
C17_Ownership ==
    /\ status # "undefined"
    /\ status = "running" =>
          /\ \A a \in DOMAIN heap :
                Cardinality({s \in Held : unbox_as_leaf(s[3]) = a}) = 1
          /\ \A s \in Held :
                /\ unbox_as_leaf(s[3]) \in DOMAIN heap
                /\ tag_of(s[3]) = (IF heap[unbox_as_leaf(s[3])].kind = "leaf"
                                   THEN INTSET_LEAF ELSE INTSET_BRANCH)

\* C17's case: the insert just made split a leaf below the root branch,
\* freed it and put a branch with its leaves in its slot
C17_Witness ==
    /\ status = "running"
    /\ last.op = "insert"
    /\ last.split > 0
    /\ Cardinality(Branches) = 2
    /\ Cardinality(Leaves) >= 3


(* C18: every element stored in a leaf sits where the descent for it       *)
(* leads: the descent from the root for a leaf's element ends at that      *)
(* leaf, i.e. at every branch b above the leaf the slot on the path is     *)
(* index(b.mask, v); all elements of a leaf agree on every bit of the      *)
(* masks above it, and no two masks along a path share a bit.              *)
C18_RoutingConsistent ==
    /\ status # "undefined"
    /\ status = "running" =>
          /\ \A a \in Leaves :
                \A i \in 1..heap[a].len : LeafOf(heap, root, heap[a].values[i]) = a
          /\ \A e \in Ends(root, 0, {}, TRUE) :
                /\ e.disjoint
                /\ ~is_null(e.node) =>
                      LET leaf == heap[unbox_as_leaf(e.node)] IN
                      \A i \in 1..leaf.len, p \in e.bits :
                          BitAt(leaf.values[i], p) = BitAt(leaf.values[1], p)

\* C18's case: a leaf of several elements below two branches, next to a
\* leaf the first split left in another slot of the root branch
C18_Witness ==
    /\ status = "running"
    /\ \E e \in Ends(root, 0, {}, TRUE) :
          /\ e.depth = 2
          /\ tag_of(e.node) = INTSET_LEAF
          /\ heap[unbox_as_leaf(e.node)].len > BRANCH_LEN
    /\ \E e \in Ends(root, 0, {}, TRUE) : e.depth = 1 /\ tag_of(e.node) = INTSET_LEAF


(* C19: across inserts, removes and splits every leaf's length is at most  *)
(* the capacity its block was last allocated for, and no write of          *)
(* insert_in_leaf or insert_ordered goes to an index at or above that      *)
(* capacity (such a write is undefined behaviour); this although remove    *)
(* never shrinks a block and a later insert reallocates to twice the       *)
(* length, which can be less than the block had.                           *)
C19_InBounds ==
    /\ status # "undefined"
    /\ \A a \in Leaves :
          /\ heap[a].len <= heap[a].cap
          /\ Len(heap[a].values) <= heap[a].cap
    /\ LastGrew =>
          LET leaf == heap[LeafOf(heap, root, last.x)] IN
          \A i \in 1..leaf.len : leaf.values[i] = last.x => i - 1 < leaf.cap

\* C19's case: below a branch, removes had left a leaf a block larger than
\* twice its length, and the insert just made reallocated it to twice its
\* length
C19_Witness ==
    /\ LastGrew
    /\ tag_of(root) = INTSET_BRANCH
    /\ last.pcap > heap[LeafOf(heap, root, last.x)].cap

=============================================================================
